---- MODULE Spec2Model ----
(***************************************************************************)
(* clarvis: the hook-to-speech pipeline.                                   *)
(*                                                                         *)
(* One process invocation: main (index.ts) reads a hook event from stdin   *)
(* (parseHookInput), loads the configuration, recovers the last assistant  *)
(* message from the transcript (extractLastAssistantMessage, which calls   *)
(* extractMetadata), summarizes it (LLMClient.summarize) and speaks the    *)
(* sentences one at a time (Speaker.speak).  Every JavaScript string is    *)
(* modelled as a sequence of lexical tokens, so that trimming, parsing and *)
(* concatenation are computed and not assumed.                             *)
(***************************************************************************)
EXTENDS Naturals, Sequences, FiniteSets, TLC

VARIABLES
    envVoice,       \* process.env.CLARVIS_VOICE: "off" or "unset"
    pc,             \* where main (or the summarize harness) stands
    stdinRest,      \* tokens the writer of stdin has not delivered yet
    stdinState,     \* "paused", "flowing", "ended", "errored"
    data,           \* parseHookInput's accumulator (let data)
    timeout,        \* the 1 second timer: "unset", "armed", "fired", "cleared"
    inputPromise,   \* [state, value]: inputPromise of parseHookInput
    hook,           \* what parseHookInput returned
    config,         \* what loadConfig returned
    transcript,     \* the content of the transcript file as it was read
    message,        \* what extractLastAssistantMessage returned
    logPromise,     \* the floating import('./logger.js').then(...) promises
    llm,            \* the LLMClient main (or the harness) constructed
    call,           \* the arguments of the summarize call in progress
    fetches,        \* the provider requests issued, in order
    sentences,      \* what summarize returned
    speakIdx,       \* index of the sentence whose channel call is in flight
    channel,        \* the lspeak invocations issued, in order
    error,          \* the errors that surfaced at main's catch, in order
    exitCode,       \* the process exit status, "running" before termination
    stages          \* the stage events of this invocation, in order

vars == <<envVoice, pc, stdinRest, stdinState, data, timeout, inputPromise,
          hook, config, transcript, message, logPromise, llm, call, fetches,
          sentences, speakIdx, channel, error, exitCode, stages>>

(***************************************************************************)
(* Bounds of the model.                                                    *)
(***************************************************************************)
MaxPad == 1         \* whitespace tokens around a stdin payload
MaxLines == 2       \* physical lines of a transcript file
MaxSegments == 2    \* sentence segments in a provider's output

(***************************************************************************)
(* Strings as token sequences.                                             *)
(***************************************************************************)
Tok(t, k, v) == [t |-> t, k |-> k, v |-> v, p |-> ""]
WS == Tok("ws", "", "")
NL == Tok("nl", "", "")
IsSpace(tok) == tok.t \in {"ws", "nl"}

RECURSIVE TrimStart(_)
TrimStart(s) ==
    IF s = <<>> THEN s
    ELSE IF IsSpace(Head(s)) THEN TrimStart(Tail(s)) ELSE s

RECURSIVE TrimEnd(_)
TrimEnd(s) ==
    IF s = <<>> THEN s
    ELSE IF IsSpace(s[Len(s)]) THEN TrimEnd(SubSeq(s, 1, Len(s) - 1)) ELSE s

\* String.prototype.trim
Trim(s) == TrimEnd(TrimStart(s))

RECURSIVE Repeat(_, _)
Repeat(tok, n) == IF n = 0 THEN <<>> ELSE <<tok>> \o Repeat(tok, n - 1)

(***************************************************************************)
(* The text on stdin and JSON.parse of it.                                 *)
(***************************************************************************)
RequiredFields == <<"session_id", "transcript_path", "cwd", "hook_event_name">>
FieldTypes == {"absent", "string", "number"}
StopValues == {"absent", "true", "false"}

Member(k, v) == Tok("member", k, v)
Atom(v) == Tok("atom", "", v)
LBrace == Tok("lbrace", "", "")
RBrace == Tok("rbrace", "", "")
Junk == Tok("junk", "", "")

\* The text of a JSON object with the given type for each required field
\* and the given stop_hook_active member.
ObjectText(f, stop) ==
    LET all == [i \in 1..4 |-> Member(RequiredFields[i], f[RequiredFields[i]])]
                 \o << Member("stop_hook_active", stop) >>
    IN  <<LBrace>> \o SelectSeq(all, LAMBDA m : m.v # "absent") \o <<RBrace>>

AllStrings == [k \in {RequiredFields[i] : i \in 1..4} |-> "string"]
ValidText == ObjectText(AllStrings, "absent")

Padded(s, n) == Repeat(WS, n) \o s \o Repeat(NL, n)

Payloads ==
    { ObjectText(f, stop) :
        f \in [{RequiredFields[i] : i \in 1..4} -> FieldTypes], stop \in StopValues }
    \cup { <<Atom(v)>> : v \in {"null", "number", "string", "array"} }
    \cup { <<>>, <<Junk>>, SubSeq(ValidText, 1, Len(ValidText) - 1) }
    \cup { Padded(s, n) : s \in {ValidText, <<>>, <<Atom("null")>>}, n \in 1..MaxPad }

\* JSON.parse: whitespace between lexemes is insignificant; the text must be
\* exactly one value.
JSONParse(s) ==
    LET body == SelectSeq(s, LAMBDA tok : ~IsSpace(tok))
        n == Len(body)
    IN  IF n = 1 /\ body[1].t = "atom"
          THEN [ok |-> TRUE, kind |-> body[1].v, members |-> <<>>]
        ELSE IF /\ n >= 2
                /\ body[1] = LBrace
                /\ body[n] = RBrace
                /\ \A i \in 2..(n - 1) : body[i].t = "member"
          THEN [ok |-> TRUE, kind |-> "object", members |-> SubSeq(body, 2, n - 1)]
        ELSE [ok |-> FALSE, kind |-> "SyntaxError", members |-> <<>>]

\* typeof parsed.<key>; reading a property of null throws a TypeError.
TypeOfProperty(parsed, key) ==
    IF parsed.kind = "null" THEN "TypeError"
    ELSE LET hits == SelectSeq(parsed.members, LAMBDA m : m.k = key)
         IN  IF hits = <<>> THEN "undefined" ELSE hits[Len(hits)].v

NullHook == [status |-> "null", stop |-> "absent"]
PendingHook == [status |-> "pending", stop |-> "absent"]

\* ValidateHook without the test of cwd.
ValidateHookSkipsCwd(parsed) ==
    IF \E i \in {1, 2, 4} : TypeOfProperty(parsed, RequiredFields[i]) # "string"
      THEN NullHook
      ELSE [status |-> "event", stop |-> "absent"]

\* parseHookInput after the await: the settled promise decides the result.
ValidateHook(parsed) ==
    IF \E i \in 1..4 : TypeOfProperty(parsed, RequiredFields[i]) # "string"
      THEN NullHook
      ELSE LET stop == TypeOfProperty(parsed, "stop_hook_active")
           IN  [status |-> "event",
                stop |-> IF stop = "undefined" THEN "absent" ELSE stop]

ParseHookResult(promise) ==
    IF promise.state = "rejected" THEN NullHook
    ELSE IF promise.value = <<>> THEN NullHook
    ELSE LET parsed == JSONParse(promise.value)
         IN  IF ~parsed.ok THEN NullHook ELSE ValidateHook(parsed)

(***************************************************************************)
(* Message text and extractMetadata (metadata.ts).  A message is a         *)
(* sequence of words, blanks, newlines and clarvis:[...] blocks; a block   *)
(* carries the value found after each key ("" when the key is missing).    *)
(***************************************************************************)
Word(w) == Tok("word", "", w)
TagBlock(context, intent, project) ==
    [t |-> "tag", k |-> context, v |-> intent, p |-> project]

validContexts == {"assistant", "development", "exploration", "writing"}
validIntents == {"navigation", "discussion", "completion", "status", "error"}

NoMetadata == [present |-> FALSE, context |-> "", intent |-> "", project |-> ""]

\* extractMetadata: the first clarvis:[...] block of the message decides.
extractMetadata(text) ==
    LET blocks == SelectSeq(text, LAMBDA tok : tok.t = "tag")
    IN  IF blocks = <<>> THEN NoMetadata
        ELSE LET b == blocks[1]
             IN  IF b.k = "" \/ b.v = "" THEN NoMetadata
                 ELSE IF b.k \notin validContexts THEN NoMetadata
                 ELSE IF b.v \notin validIntents THEN NoMetadata
                 ELSE [present |-> TRUE, context |-> b.k, intent |-> b.v,
                       project |-> b.p]

\* The places where /(\n\n?)clarvis:\[.*?\]$/ can match with its block at j:
\* a newline right before the block, no newline after it, and the text ends
\* with the closing bracket of a block.
TagMatchAt(text, j) ==
    /\ j > 1
    /\ text[j].t = "tag"
    /\ text[j - 1] = NL
    /\ \A i \in (j + 1)..Len(text) : text[i] # NL
    /\ text[Len(text)].t = "tag"

\* text.replace(/(\n\n?)clarvis:\[.*?\]$/g, ''): the leftmost match is cut,
\* with one or two newlines before it.
StripTag(text) ==
    LET js == {j \in 1..Len(text) : TagMatchAt(text, j)}
    IN  IF js = {} THEN text
        ELSE LET j == CHOOSE x \in js : \A y \in js : x <= y
                 from == IF j > 2 /\ text[j - 2] = NL THEN j - 2 ELSE j - 1
             IN  SubSeq(text, 1, from - 1)

(***************************************************************************)
(* The transcript file and extractLastAssistantMessage (transcript.ts).    *)
(* A physical line is one whole JSON value, the i-th of the n pieces of a  *)
(* value broken between lexemes, a blank line, or text that is no JSON.    *)
(***************************************************************************)
TextItem(kind, val) == [type |-> "text", kind |-> kind, val |-> val]
ToolItem == [type |-> "tool_use", kind |-> "absent", val |-> <<>>]
Entry(role, content) == [role |-> role, content |-> content]

JsonLine(e) == [kind |-> "json", entry |-> e, i |-> 1, n |-> 1]
PieceLine(e, i, n) == [kind |-> "piece", entry |-> e, i |-> i, n |-> n]
BlankLine == [kind |-> "blank", entry |-> Entry("none", <<>>), i |-> 1, n |-> 1]
JunkLine == [kind |-> "junk", entry |-> Entry("none", <<>>), i |-> 1, n |-> 1]

\* JSON.parse(currentEntry): the buffer holds lines joined by newlines.
\* Blank lines are whitespace; what remains must be exactly one value.
ParseEntry(buffer) ==
    LET body == SelectSeq(buffer, LAMBDA l : l.kind # "blank")
        n == Len(body)
    IN  IF n = 1 /\ body[1].kind = "json" THEN [ok |-> TRUE, entry |-> body[1].entry]
        ELSE IF /\ n >= 2
                /\ \A i \in 1..n : /\ body[i].kind = "piece"
                                   /\ body[i].i = i
                                   /\ body[i].n = n
                                   /\ body[i].entry = body[1].entry
          THEN [ok |-> TRUE, entry |-> body[1].entry]
        ELSE [ok |-> FALSE, entry |-> Entry("none", <<>>)]

\* content.trim().split('\n'): blank lines at both ends are dropped; a file
\* of blank lines only never gets here.
SplitLines(content) ==
    LET blank(l) == l.kind = "blank"
        first == CHOOSE i \in 1..Len(content) :
                    ~blank(content[i]) /\ \A j \in 1..(i - 1) : blank(content[j])
        last == CHOOSE i \in 1..Len(content) :
                    ~blank(content[i]) /\ \A j \in (i + 1)..Len(content) : blank(content[j])
    IN  SubSeq(content, first, last)

\* Reconstruct giving up, with no record, at the first buffer that does
\* not parse.
RECURSIVE ReconstructAborts(_, _, _)
ReconstructAborts(lines, jsonlEntries, currentEntry) ==
    IF lines = <<>> THEN jsonlEntries
    ELSE LET parsed == ParseEntry(Append(currentEntry, Head(lines)))
         IN  IF parsed.ok
               THEN ReconstructAborts(Tail(lines), Append(jsonlEntries, parsed.entry), <<>>)
               ELSE <<>>

\* The reconstruction loop: state is <<jsonlEntries, currentEntry>>.
RECURSIVE Reconstruct(_, _, _)
Reconstruct(lines, jsonlEntries, currentEntry) ==
    IF lines = <<>> THEN jsonlEntries
    ELSE LET buffer == Append(currentEntry, Head(lines))
             parsed == ParseEntry(buffer)
         IN  IF parsed.ok
               THEN Reconstruct(Tail(lines), Append(jsonlEntries, parsed.entry), <<>>)
               ELSE Reconstruct(Tail(lines), jsonlEntries, buffer)

SearchWindow == 20

\* LastEntries without the restriction to the most recent entries.
LastEntriesAll(entries) == entries

\* jsonlEntries.slice(-20)
LastEntries(entries) ==
    IF Len(entries) <= SearchWindow THEN entries
    ELSE SubSeq(entries, Len(entries) - SearchWindow + 1, Len(entries))

EmptyMessage == [text |-> <<>>, metadata |-> NoMetadata]

\* What the scan of one entry does: "return" the message of its first usable
\* text item, "throw" (caught: the entry is skipped) when that item's text is
\* not a string, or "skip".
ScanEntry(e) ==
    IF e.role # "assistant" THEN [do |-> "skip", text |-> <<>>]
    ELSE LET usable == SelectSeq(e.content,
                          LAMBDA c : /\ c.type = "text"
                                     /\ c.kind \in {"string", "number"}
                                     /\ ~(c.kind = "string" /\ c.val = <<>>))
         IN  IF usable = <<>> THEN [do |-> "skip", text |-> <<>>]
             ELSE IF usable[1].kind = "number" THEN [do |-> "throw", text |-> <<>>]
             ELSE [do |-> "return", text |-> usable[1].val]

\* The scan from the most recent entry to the oldest.  rejected counts the
\* entries whose text was handed to extractMetadata without being a string.
RECURSIVE ScanBack(_, _, _)
ScanBack(entries, k, rejected) ==
    IF k = 0 THEN [message |-> EmptyMessage, rejected |-> rejected]
    ELSE LET r == ScanEntry(entries[k])
         IN  IF r.do = "return"
               THEN LET metadata == extractMetadata(r.text)
                    IN  [message |->
                           [text |-> IF metadata.present THEN StripTag(r.text)
                                     ELSE r.text,
                            metadata |-> metadata],
                         rejected |-> rejected]
             ELSE IF r.do = "throw" THEN ScanBack(entries, k - 1, rejected + 1)
             ELSE ScanBack(entries, k - 1, rejected)

IOError == <<[kind |-> "ioerror", entry |-> Entry("none", <<>>), i |-> 1, n |-> 1]>>

IsBlankContent(content) == \A i \in 1..Len(content) : content[i].kind = "blank"

\* extractLastAssistantMessage(path), on the content read from path.
extractLastAssistantMessage(content) ==
    IF content = IOError THEN [message |-> EmptyMessage, rejected |-> 0]
    ELSE IF IsBlankContent(content) THEN [message |-> EmptyMessage, rejected |-> 0]
    ELSE LET entries == LastEntries(Reconstruct(SplitLines(content), <<>>, <<>>))
         IN  ScanBack(entries, Len(entries), 0)

(***************************************************************************)
(* LLMClient (llm.ts).                                                     *)
(***************************************************************************)
Err(kind, msg, arg) == [kind |-> kind, msg |-> msg, arg |-> arg]
NoErr == Err("none", "", "")

NoClient == [built |-> FALSE, provider |-> "", apiKey |-> "", base |-> "",
             prompts |-> <<>>]

\* LLMClientNew naming the configured key in the error of an unsupported
\* provider.
LLMClientNewNamesKey(cfg) ==
    IF cfg.provider = "openai"
      THEN IF cfg.apiKey = ""
             THEN [ok |-> FALSE, client |-> NoClient,
                   err |-> Err("config", "OpenAI provider requires API key in config", "")]
             ELSE [ok |-> TRUE, err |-> NoErr,
                   client |-> [built |-> TRUE, provider |-> "openai",
                               apiKey |-> cfg.apiKey, base |-> cfg.base,
                               prompts |-> cfg.prompts]]
    ELSE IF cfg.provider = "ollama"
      THEN [ok |-> TRUE, err |-> NoErr,
            client |-> [built |-> TRUE, provider |-> "ollama", apiKey |-> "",
                        base |-> cfg.base, prompts |-> cfg.prompts]]
    ELSE [ok |-> FALSE, client |-> NoClient,
          err |-> Err("config", "Unsupported LLM provider: ", cfg.apiKey)]

\* new LLMClient(config) with the provider constructors it runs.
LLMClientNew(cfg) ==
    IF cfg.provider = "openai"
      THEN IF cfg.apiKey = ""
             THEN [ok |-> FALSE, client |-> NoClient,
                   err |-> Err("config", "OpenAI provider requires API key in config", "")]
             ELSE [ok |-> TRUE, err |-> NoErr,
                   client |-> [built |-> TRUE, provider |-> "openai",
                               apiKey |-> cfg.apiKey, base |-> cfg.base,
                               prompts |-> cfg.prompts]]
    ELSE IF cfg.provider = "ollama"
      THEN [ok |-> TRUE, err |-> NoErr,
            client |-> [built |-> TRUE, provider |-> "ollama", apiKey |-> "",
                        base |-> cfg.base, prompts |-> cfg.prompts]]
    ELSE [ok |-> FALSE, client |-> NoClient,
          err |-> Err("config", "Unsupported LLM provider: ", cfg.provider)]

\* Names every plain object inherits from Object.prototype.
ObjectPrototypeKeys == {"constructor", "toString", "valueOf", "hasOwnProperty"}

\* this.prompts[promptKey]: an own property, else an inherited one, else
\* undefined.
PromptLookup(prompts, style) ==
    IF style \in DOMAIN prompts
      THEN [type |-> "string", val |-> prompts[style]]
    ELSE IF style \in ObjectPrototypeKeys
      THEN [type |-> "function", val |-> style]
    ELSE [type |-> "undefined", val |-> ""]

\* !prompt
Falsy(v) == v.type = "undefined" \/ (v.type = "string" /\ v.val = "")

NoRequest == [provider |-> "", auth |-> "", base |-> "", context |-> "",
              intent |-> "", project |-> "", prompt |-> "", label |-> "",
              topic |-> "", text |-> <<>>]

\* BypassResult with the text trimmed on its way through.
BypassTrimmed(text) == <<Trim(text)>>

\* if (style === 'bypass') return [text]
BypassResult(text) == <<text>>

\* LLMClient.summarize up to its first suspension on the provider: it
\* returns, throws, or issues one request.
SummarizeStart(client, text, style, context, intent, project) ==
    IF style = "bypass"
      THEN [do |-> "return", sentences |-> BypassResult(text), err |-> NoErr,
            request |-> NoRequest]
    ELSE LET prompt == PromptLookup(client.prompts, style)
         IN  IF Falsy(prompt)
               THEN [do |-> "throw", sentences |-> <<>>,
                     err |-> Err("config", "No prompt configured for style: ", style),
                     request |-> NoRequest]
               ELSE [do |-> "fetch", sentences |-> <<>>, err |-> NoErr,
                     request |->
                       [provider |-> client.provider,
                        auth |-> client.apiKey,
                        base |-> client.base,
                        context |-> context,
                        intent |-> intent,
                        project |-> IF project = "" THEN "none" ELSE project,
                        prompt |-> prompt.val,
                        label |-> IF context = "development" THEN "Project"
                                  ELSE "Topic",
                        topic |-> IF project = "" THEN "general" ELSE project,
                        text |-> text]]

\* Output text of a provider: words, sentence stops and blanks.
Stop == Tok("stop", "", ".")

\* text.length, with four characters to a word
RECURSIVE Length(_)
Length(s) ==
    IF s = <<>> THEN 0
    ELSE (IF Head(s).t = "word" THEN 4 ELSE 1) + Length(Tail(s))

\* Intl.Segmenter, granularity sentence: a segment ends after the blanks
\* that follow a sentence stop.
RECURSIVE Segments(_, _)
Segments(s, current) ==
    IF s = <<>> THEN (IF current = <<>> THEN <<>> ELSE <<current>>)
    ELSE IF /\ current # <<>>
            /\ ~IsSpace(Head(s))
            /\ IsSpace(current[Len(current)])
            /\ \E i \in 1..Len(current) :
                  /\ current[i] = Stop
                  /\ \A j \in (i + 1)..Len(current) : IsSpace(current[j])
      THEN <<current>> \o Segments(Tail(s), <<Head(s)>>)
    ELSE Segments(Tail(s), Append(current, Head(s)))

MinSplitLength == 10

MapTrim(list) == [i \in 1..Len(list) |-> Trim(list[i])]

\* splitIntoSentences without its fallbacks to the whole text.
splitIntoSentencesNoFallback(text, segmenter) ==
    SelectSeq(MapTrim(Segments(text, <<>>)), LAMBDA x : Len(x) > 0)

\* LLMClient.splitIntoSentences
splitIntoSentences(text, segmenter) ==
    IF Length(text) < MinSplitLength THEN <<text>>
    ELSE IF segmenter = "throws" THEN <<text>>
    ELSE LET found == SelectSeq(MapTrim(Segments(text, <<>>)),
                                LAMBDA x : Len(x) > 0)
         IN  IF Len(found) > 0 THEN found ELSE <<text>>

\* ProviderResult with one message for every failed call, the status left
\* out.
ProviderResultDropsStatus(provider, resp) ==
    IF resp.kind = "network" \/ resp.status # "200"
      THEN [ok |-> FALSE, summary |-> <<>>,
            err |-> Err("service", "provider call failed", "")]
    ELSE IF resp.body = "not json"
      THEN [ok |-> FALSE, summary |-> <<>>,
            err |-> Err("service", "SyntaxError", "")]
    ELSE IF resp.body \in {"missing", "null"}
      THEN [ok |-> TRUE, summary |-> <<>>, err |-> NoErr]
    ELSE [ok |-> TRUE, summary |-> resp.content, err |-> NoErr]

\* ProviderResult rejecting an answer without content.
ProviderResultRequiresContent(provider, resp) ==
    IF resp.kind = "network"
      THEN [ok |-> FALSE, summary |-> <<>>,
            err |-> Err("service", "fetch failed", "")]
    ELSE IF resp.status # "200"
      THEN [ok |-> FALSE, summary |-> <<>>,
            err |-> Err("service",
                        IF provider = "openai" THEN "OpenAI API error: "
                        ELSE "Ollama API error: ",
                        resp.status)]
    ELSE IF resp.body = "not json"
      THEN [ok |-> FALSE, summary |-> <<>>,
            err |-> Err("service", "SyntaxError", "")]
    ELSE IF resp.body \in {"missing", "null"} \/ resp.content = <<>>
      THEN [ok |-> FALSE, summary |-> <<>>,
            err |-> Err("service", "TypeError", "")]
    ELSE [ok |-> TRUE, summary |-> resp.content, err |-> NoErr]

\* A provider's summarize on the response of fetch: the summary, or the
\* error it throws.
ProviderResult(provider, resp) ==
    IF resp.kind = "network"
      THEN [ok |-> FALSE, summary |-> <<>>,
            err |-> Err("service", "fetch failed", "")]
    ELSE IF resp.status # "200"
      THEN [ok |-> FALSE, summary |-> <<>>,
            err |-> Err("service",
                        IF provider = "openai" THEN "OpenAI API error: "
                        ELSE "Ollama API error: ",
                        resp.status)]
    ELSE IF resp.body = "not json"
      THEN [ok |-> FALSE, summary |-> <<>>,
            err |-> Err("service", "SyntaxError", "")]
    ELSE IF resp.body \in {"missing", "null"}
      THEN [ok |-> TRUE, summary |-> <<>>, err |-> NoErr]
    ELSE [ok |-> TRUE, summary |-> resp.content, err |-> NoErr]

\* LLMClient.summarize after the provider answered.
SummarizeFinish(provider, resp) ==
    LET r == ProviderResult(provider, resp)
    IN  IF ~r.ok THEN [do |-> "throw", sentences |-> <<>>, err |-> r.err]
        ELSE [do |-> "return", err |-> NoErr,
              sentences |-> MapTrim(splitIntoSentences(r.summary, resp.segmenter))]

\* The answers the network and a provider can give.
Sentence(w) == <<Word(w), Stop>>
RECURSIVE Summary(_)
Summary(n) ==
    IF n = 0 THEN <<>>
    ELSE IF n = 1 THEN Sentence("s")
    ELSE Summary(n - 1) \o <<WS>> \o Sentence("s")

Response(kind, status, body, content, segmenter) ==
    [kind |-> kind, status |-> status, body |-> body, content |-> content,
     segmenter |-> segmenter]

Responses ==
    { Response("network", "", "", <<>>, "ok") }
    \cup { Response("http", st, "", <<>>, "ok") : st \in {"429", "500"} }
    \cup { Response("http", "200", b, <<>>, "ok") : b \in {"not json", "missing", "null"} }
    \cup { Response("http", "200", "json", Summary(n), "ok") : n \in 0..MaxSegments }
    \cup { Response("http", "200", "json", <<WS>> \o Summary(MaxSegments) \o <<NL>>, g) :
             g \in {"ok", "throws"} }
    \cup { Response("http", "200", "json", Repeat(WS, MinSplitLength), "ok") }

(***************************************************************************)
(* Speaker (speaker.ts).                                                   *)
(***************************************************************************)
Arg(opt) == [opt |-> opt, text |-> <<>>]
TextArg(sentence) == [opt |-> "", text |-> sentence]

NoVoice == [present |-> FALSE, provider |-> "", voice_id |-> "", api_key |-> "",
            cache_threshold |-> ""]
SystemVoice == [present |-> TRUE, provider |-> "system", voice_id |-> "",
                api_key |-> "", cache_threshold |-> ""]

\* ShouldCache deciding by the mode alone.
ShouldCacheByModeOnly(mode, useCache) == mode # "full"

\* shouldCache of Speaker.speak; useCache is "undefined", "true" or "false".
ShouldCache(mode, useCache) ==
    IF useCache # "undefined" THEN useCache = "true" ELSE mode # "full"

\* BuildCommand with the sentence interpolated into a command line that a
\* shell splits into words.
BuildCommandInterpolated(voiceConfig, shouldCache, sentence) ==
    LET words == SelectSeq(sentence, LAMBDA tok : ~IsSpace(tok))
    IN  <<Arg("lspeak")>>
        \o (IF ~shouldCache THEN <<Arg("--no-cache")>> ELSE <<>>)
        \o (IF voiceConfig.provider # ""
              THEN <<Arg("--provider"), Arg(voiceConfig.provider)>> ELSE <<>>)
        \o [k \in 1..Len(words) |-> TextArg(<<words[k]>>)]

\* buildCommand(sentence)
BuildCommand(voiceConfig, shouldCache, sentence) ==
    <<Arg("lspeak")>>
    \o (IF ~shouldCache THEN <<Arg("--no-cache")>> ELSE <<>>)
    \o (IF voiceConfig.provider # ""
          THEN <<Arg("--provider"), Arg(voiceConfig.provider)>> ELSE <<>>)
    \o (IF voiceConfig.voice_id # "" /\ voiceConfig.provider # "system"
          THEN <<Arg("--voice"), Arg(voiceConfig.voice_id)>> ELSE <<>>)
    \o (IF voiceConfig.cache_threshold # ""
          THEN <<Arg("--cache-threshold"), Arg(voiceConfig.cache_threshold)>>
          ELSE <<>>)
    \o <<TextArg(sentence)>>

\* The environment handed to the subprocess.
SpeakEnv(voiceConfig) ==
    IF voiceConfig.provider = "elevenlabs" /\ voiceConfig.api_key # ""
      THEN {<<"ELEVENLABS_API_KEY", voiceConfig.api_key>>} ELSE {}

\* One lspeak invocation of speak(sentences, mode, useCache) for sentence i.
ChannelCall(by, voiceConfig, sentenceList, mode, useCache, i) ==
    [by |-> by,
     args |-> BuildCommand(voiceConfig, ShouldCache(mode, useCache), sentenceList[i]),
     env |-> SpeakEnv(voiceConfig),
     status |-> "running"]

(***************************************************************************)
(* main (index.ts): the stretches of code between two suspensions, as      *)
(* functions from what main holds to what it does next.                    *)
(***************************************************************************)
NoCall == [style |-> "", cache |-> "undefined", context |-> "", intent |-> "",
           project |-> ""]

Outcome(do, err, client, request, sents, c, events) ==
    [do |-> do, err |-> err, client |-> client, request |-> request,
     sentences |-> sents, call |-> c, events |-> events]

\* VoiceDisabled comparing with another sentinel.
VoiceDisabledOnFalse(env) == env = "false"

\* process.env.CLARVIS_VOICE === 'off'
VoiceDisabled(env) == env = "off"

\* HookStops without the test of stop_hook_active.
HookStopsOnNullOnly(h) == h.status = "null"

\* !hook || hook.stop_hook_active
HookStops(h) == h.status = "null" \/ h.stop = "true"

\* NoText that lets every text through.
NoTextNever(text) == FALSE

\* !text
NoText(text) == text = <<>>

\* IsSilent that knows no silent style.
IsSilentNever(style) == FALSE

\* contextConfig.style === 'silent'
IsSilent(style) == style = "silent"

SummarizerRan == <<"summarizer:start", "summarizer:end">>

\* ContextConfig without the fallback to the assistant section.
ContextConfigNoFallback(contexts, context) ==
    IF context \in DOMAIN contexts
      THEN [found |-> TRUE, style |-> contexts[context].style,
            cache |-> contexts[context].cache]
    ELSE [found |-> FALSE, style |-> "", cache |-> "undefined"]

\* config.contexts[context] || config.contexts.assistant
ContextConfig(contexts, context) ==
    IF context \in DOMAIN contexts
      THEN [found |-> TRUE, style |-> contexts[context].style,
            cache |-> contexts[context].cache]
    ELSE IF "assistant" \in DOMAIN contexts
      THEN [found |-> TRUE, style |-> contexts["assistant"].style,
            cache |-> contexts["assistant"].cache]
    ELSE [found |-> FALSE, style |-> "", cache |-> "undefined"]

\* main from the return of summarize to the first channel call.
AfterSummarize(cfg, client, sents, c, events) ==
    IF ~cfg.voice.present
      THEN Outcome("catch",
                   Err("config", "Voice configuration missing from config.toml", ""),
                   client, NoRequest, sents, c, events)
    ELSE IF cfg.voice.provider = "elevenlabs" /\ cfg.voice.api_key = ""
      THEN Outcome("catch",
                   Err("config",
                       "ElevenLabs API key required when using elevenlabs provider", ""),
                   client, NoRequest, sents, c, events)
    ELSE Outcome("speak", NoErr, client, NoRequest, sents, c,
                 Append(events, "dispatcher:start"))

\* main from the return of extractLastAssistantMessage to its next
\* suspension.
AfterTranscript(cfg, msg) ==
    IF NoText(msg.text)
      THEN Outcome("exit", NoErr, NoClient, NoRequest, <<>>, NoCall, <<>>)
    ELSE
      LET context == IF msg.metadata.present THEN msg.metadata.context
                     ELSE "assistant"
          intent == IF msg.metadata.present THEN msg.metadata.intent
                    ELSE "discussion"
          project == msg.metadata.project
          contextConfig == ContextConfig(cfg.contexts, context)
          c == [style |-> contextConfig.style, cache |-> contextConfig.cache,
                context |-> context, intent |-> intent, project |-> project]
      IN  IF ~contextConfig.found
            THEN Outcome("catch",
                         Err("config", "No configuration found for context ", context),
                         NoClient, NoRequest, <<>>, c, <<>>)
          ELSE IF IsSilent(contextConfig.style)
            THEN Outcome("exit", NoErr, NoClient, NoRequest, <<>>, c, <<>>)
          ELSE
            LET made == LLMClientNew(cfg.llm)
            IN  IF ~made.ok
                  THEN Outcome("catch", made.err, NoClient, NoRequest, <<>>, c,
                               SummarizerRan)
                ELSE
                  LET s == SummarizeStart(made.client, msg.text, c.style,
                                          context, intent, project)
                  IN  IF s.do = "throw"
                        THEN Outcome("catch", s.err, made.client, NoRequest, <<>>, c,
                                     SummarizerRan)
                      ELSE IF s.do = "fetch"
                        THEN Outcome("fetch", NoErr, made.client, s.request, <<>>, c,
                                     <<"summarizer:start">>)
                      ELSE AfterSummarize(cfg, made.client, s.sentences, c,
                                          SummarizerRan)

\* main from the answer of the provider to its next suspension.
AfterFetch(cfg, client, c, resp) ==
    LET s == SummarizeFinish(client.provider, resp)
    IN  IF s.do = "throw"
          THEN Outcome("catch", s.err, client, NoRequest, <<>>, c,
                       <<"summarizer:end">>)
          ELSE AfterSummarize(cfg, client, s.sentences, c, <<"summarizer:end">>)

FallbackText == <<Word("Sir, processing failed"), Stop>>

\* FallbackCall on a Speaker built from the loaded voice configuration.
FallbackCallConfigured ==
    ChannelCall("fallback", config.voice, <<FallbackText>>, "terse", "undefined", 1)

\* The catch block of main: speak(['Sir, processing failed.'], 'terse') on a
\* Speaker with the system provider only.
FallbackCall ==
    ChannelCall("fallback", SystemVoice, <<FallbackText>>, "terse", "undefined", 1)

(***************************************************************************)
(* The inputs of one invocation.                                           *)
(***************************************************************************)
Prompts(styles) == [st \in styles |-> "P"]

LlmConfig(provider, apiKey, styles) ==
    [provider |-> provider, apiKey |-> apiKey, base |-> "B", prompts |-> Prompts(styles)]

StyleConfig(style, cache) == [style |-> style, cache |-> cache]
Absent == StyleConfig("absent", "undefined")

\* The [contexts] table holding the sections that are not absent.
Contexts(development, assistant) ==
    LET table == [k \in {"development", "assistant"} |->
                    IF k = "development" THEN development ELSE assistant]
    IN  [k \in {x \in DOMAIN table : table[x] # Absent} |-> table[k]]

NoConfig == [contexts |-> Contexts(Absent, Absent),
             llm |-> LlmConfig("", "", {}),
             voice |-> NoVoice,
             debug |-> "undefined"]

Configs ==
    { [contexts |-> Contexts(d, a), llm |-> l, voice |-> v, debug |-> g] :
        d \in {Absent, StyleConfig("terse", "undefined"), StyleConfig("bypass", "false"),
               StyleConfig("silent", "undefined"), StyleConfig("shout", "undefined")},
        a \in {Absent, StyleConfig("terse", "true")},
        l \in {LlmConfig("openai", "sk-1", {"terse"}), LlmConfig("openai", "", {"terse"}),
               LlmConfig("ollama", "", {"terse"}), LlmConfig("claude", "sk-1", {"terse"})},
        v \in {NoVoice, SystemVoice,
               [SystemVoice EXCEPT !.provider = "elevenlabs", !.voice_id = "v1"],
               [SystemVoice EXCEPT !.provider = "elevenlabs", !.voice_id = "v1",
                                   !.api_key = "el-1", !.cache_threshold = "0.9"]},
        g \in {"undefined", "mkdir fails"} }

UserLine == JsonLine(Entry("user", <<TextItem("string", <<Word("ask")>>)>>))
PlainLine == JsonLine(Entry("assistant",
                 <<ToolItem, TextItem("string", <<Word("done"), Stop>>)>>))
TaggedLine == JsonLine(Entry("assistant",
                 <<TextItem("string", <<Word("done"), Stop, NL, NL,
                                        TagBlock("development", "completion", "auth")>>)>>))
NumberLine == JsonLine(Entry("assistant", <<TextItem("number", <<>>)>>))

RECURSIVE SeqsUpTo(_, _)
SeqsUpTo(S, n) ==
    IF n = 0 THEN {<<>>}
    ELSE LET shorter == SeqsUpTo(S, n - 1)
         IN  shorter \cup {Append(q, x) : q \in shorter, x \in S}

Transcripts ==
    {IOError} \cup SeqsUpTo({UserLine, PlainLine, TaggedLine, NumberLine, JunkLine},
                            MaxLines)

(***************************************************************************)
(* The state machine of one invocation.                                    *)
(***************************************************************************)
Pending == [state |-> "pending", value |-> <<>>]

Init ==
    /\ envVoice \in {"off", "unset"}
    /\ stdinRest \in Payloads
    /\ pc = "start"
    /\ stdinState = "paused"
    /\ data = <<>>
    /\ timeout = "unset"
    /\ inputPromise = Pending
    /\ hook = PendingHook
    /\ config = NoConfig
    /\ transcript = <<>>
    /\ message = EmptyMessage
    /\ logPromise = 0
    /\ llm = NoClient
    /\ call = NoCall
    /\ fetches = <<>>
    /\ sentences = <<>>
    /\ speakIdx = 0
    /\ channel = <<>>
    /\ error = <<>>
    /\ exitCode = "running"
    /\ stages = <<>>

Running == exitCode = "running"

readerVars == <<stdinRest, stdinState, data, timeout, inputPromise>>
laterVars == <<config, transcript, message, logPromise, llm, call, fetches,
               sentences, speakIdx, channel, error>>

\* process.exit(0)
Exit0 == pc' = "exited" /\ exitCode' = "0"

\* main up to the await of parseHookInput, and the executor of inputPromise.
Start ==
    /\ pc = "start"
    /\ IF VoiceDisabled(envVoice)
         THEN /\ Exit0
              /\ UNCHANGED <<stdinState, timeout, stages>>
         ELSE /\ timeout' = "armed"
              /\ stdinState' = "flowing"
              /\ pc' = "reading"
              /\ exitCode' = exitCode
              /\ stages' = Append(stages, "reader:start")
    /\ UNCHANGED <<envVoice, stdinRest, data, inputPromise, hook, laterVars>>

\* process.stdin.on('data')
StdinData ==
    /\ Running
    /\ stdinState = "flowing"
    /\ \E n \in 1..Len(stdinRest) :
          /\ data' = data \o SubSeq(stdinRest, 1, n)
          /\ stdinRest' = SubSeq(stdinRest, n + 1, Len(stdinRest))
    /\ UNCHANGED <<envVoice, pc, stdinState, timeout, inputPromise, hook, laterVars,
                   exitCode, stages>>

\* Settle on a promise that the last call of resolve or reject decides.
SettleAgain(promise, state, value) == [state |-> state, value |-> value]

\* A promise settles once: resolve and reject do nothing afterwards.
Settle(promise, state, value) ==
    IF promise.state = "pending" THEN [state |-> state, value |-> value] ELSE promise

\* clearTimeout(timeout)
ClearTimeout(t) == IF t = "armed" THEN "cleared" ELSE t

\* process.stdin.on('end')
StdinEnd ==
    /\ Running
    /\ stdinState = "flowing"
    /\ stdinRest = <<>>
    /\ stdinState' = "ended"
    /\ timeout' = ClearTimeout(timeout)
    /\ inputPromise' = Settle(inputPromise, "resolved", Trim(data))
    /\ UNCHANGED <<envVoice, pc, stdinRest, data, hook, laterVars, exitCode, stages>>

\* process.stdin.on('error')
StdinError ==
    /\ Running
    /\ stdinState = "flowing"
    /\ stdinState' = "errored"
    /\ timeout' = ClearTimeout(timeout)
    /\ inputPromise' = Settle(inputPromise, "rejected", <<>>)
    /\ UNCHANGED <<envVoice, pc, stdinRest, data, hook, laterVars, exitCode, stages>>

\* TimeoutFires with a callback that does not reject.
TimeoutFiresSilently ==
    /\ Running
    /\ timeout = "armed"
    /\ timeout' = "fired"
    /\ UNCHANGED <<envVoice, pc, stdinRest, stdinState, data, inputPromise, hook,
                   laterVars, exitCode, stages>>

\* The callback of setTimeout(..., 1000)
TimeoutFires ==
    /\ Running
    /\ timeout = "armed"
    /\ timeout' = "fired"
    /\ inputPromise' = Settle(inputPromise, "rejected", <<>>)
    /\ UNCHANGED <<envVoice, pc, stdinRest, stdinState, data, hook, laterVars,
                   exitCode, stages>>

\* parseHookInput from its await to its return.
ParseHookInputReturns ==
    /\ pc = "reading"
    /\ inputPromise.state # "pending"
    /\ hook' = ParseHookResult(inputPromise)
    /\ pc' = "hooked"
    /\ stages' = Append(stages, "reader:end")
    /\ UNCHANGED <<envVoice, readerVars, laterVars, exitCode>>

\* The catch block of main, entered with err: the fallback utterance is
\* handed to the channel at once.
Catch(err, chan) ==
    /\ error' = Append(error, err)
    /\ channel' = Append(chan, FallbackCall)
    /\ pc' = "fallback"
    /\ exitCode' = exitCode

\* main from the return of parseHookInput to the await of
\* extractLastAssistantMessage: the hook test, loadConfig, logger.configure.
LoadConfig ==
    /\ pc = "hooked"
    /\ \/ /\ HookStops(hook)
          /\ Exit0
          /\ UNCHANGED <<config, channel, error, stages>>
       \/ /\ ~HookStops(hook)
          /\ Catch(Err("config", "ENOENT or TomlError", ""), channel)
          /\ UNCHANGED <<config, stages>>
       \/ /\ ~HookStops(hook)
          /\ \E cfg \in Configs :
                /\ config' = cfg
                /\ IF cfg.debug = "mkdir fails"
                     THEN /\ Catch(Err("config", "EACCES: mkdir", ""), channel)
                          /\ stages' = stages
                     ELSE /\ pc' = "resolving"
                          /\ stages' = Append(stages, "resolver:start")
                          /\ UNCHANGED <<channel, error, exitCode>>
    /\ UNCHANGED <<envVoice, readerVars, hook, transcript, message, logPromise, llm,
                   call, fetches, sentences, speakIdx>>

\* extractLastAssistantMessage, on whatever the file holds when it is read.
ResolveTranscript ==
    /\ pc = "resolving"
    /\ \E content \in Transcripts :
          LET r == extractLastAssistantMessage(content)
          IN  /\ transcript' = content
              /\ message' = r.message
              /\ logPromise' = r.rejected
    /\ pc' = "resolved"
    /\ stages' = Append(stages, "resolver:end")
    /\ UNCHANGED <<envVoice, readerVars, hook, config, llm, call, fetches, sentences,
                   speakIdx, channel, error, exitCode>>

\* What main does with the outcome of a stretch of its code.
Apply(o) ==
    /\ llm' = o.client
    /\ call' = o.call
    /\ sentences' = o.sentences
    /\ CASE o.do = "exit" ->
              /\ Exit0
              /\ stages' = stages \o o.events
              /\ UNCHANGED <<fetches, speakIdx, channel, error>>
         [] o.do = "catch" ->
              /\ Catch(o.err, channel)
              /\ stages' = stages \o o.events
              /\ UNCHANGED <<fetches, speakIdx>>
         [] o.do = "fetch" ->
              /\ fetches' = Append(fetches, o.request)
              /\ pc' = "fetching"
              /\ stages' = stages \o o.events
              /\ UNCHANGED <<speakIdx, channel, error, exitCode>>
         [] o.do = "speak" ->
              /\ speakIdx' = 1
              /\ channel' = Append(channel,
                               ChannelCall("main", config.voice, o.sentences,
                                           o.call.style, o.call.cache, 1))
              /\ pc' = "speaking"
              /\ stages' = stages \o o.events
              /\ UNCHANGED <<fetches, error, exitCode>>

\* main from the return of extractLastAssistantMessage on.
MainAfterTranscript ==
    /\ pc = "resolved"
    /\ Apply(AfterTranscript(config, message))
    /\ UNCHANGED <<envVoice, readerVars, hook, config, transcript, message, logPromise>>

\* The provider's fetch settles and main goes on.
FetchSettles ==
    /\ pc = "fetching"
    /\ \E resp \in Responses :
          Apply(AfterFetch(config, llm, call, resp))
    /\ UNCHANGED <<envVoice, readerVars, hook, config, transcript, message, logPromise>>

SetStatus(chan, status) == [chan EXCEPT ![Len(chan)].status = status]

\* The lspeak subprocess of the current sentence ends; the loop of speak
\* goes on, ends, or throws.
ChannelSettles ==
    /\ pc = "speaking"
    /\ \/ /\ speakIdx < Len(sentences)
          /\ speakIdx' = speakIdx + 1
          /\ channel' = Append(SetStatus(channel, "ok"),
                               ChannelCall("main", config.voice, sentences,
                                           call.style, call.cache, speakIdx + 1))
          /\ UNCHANGED <<pc, error, exitCode, stages>>
       \/ /\ speakIdx = Len(sentences)
          /\ channel' = SetStatus(channel, "ok")
          /\ Exit0
          /\ stages' = Append(stages, "dispatcher:end")
          /\ UNCHANGED <<speakIdx, error>>
       \/ /\ Catch(Err("service", "lspeak failed", ""), SetStatus(channel, "failed"))
          /\ stages' = Append(stages, "dispatcher:end")
          /\ UNCHANGED speakIdx
    /\ UNCHANGED <<envVoice, readerVars, hook, config, transcript, message, logPromise,
                   llm, call, fetches, sentences>>

\* The subprocess of the fallback utterance ends; a failure is swallowed.
FallbackSettles ==
    /\ pc = "fallback"
    /\ \E status \in {"ok", "failed"} : channel' = SetStatus(channel, status)
    /\ Exit0
    /\ UNCHANGED <<envVoice, readerVars, hook, config, transcript, message, logPromise,
                   llm, call, fetches, sentences, speakIdx, error, stages>>

\* The callback of a floating import('./logger.js').then(...) of
\* extractMetadata threw (message.slice on a text that is no string): the
\* rejection has no handler and the runtime ends the process while main is
\* suspended on the network or on a subprocess.
UnhandledRejection ==
    /\ logPromise > 0
    /\ pc \in {"fetching", "speaking", "fallback"}
    /\ pc' = "exited"
    /\ exitCode' = "1"
    /\ UNCHANGED <<envVoice, readerVars, hook, laterVars, stages>>

Next ==
    \/ Start
    \/ StdinData
    \/ StdinEnd
    \/ StdinError
    \/ TimeoutFires
    \/ ParseHookInputReturns
    \/ LoadConfig
    \/ ResolveTranscript
    \/ MainAfterTranscript
    \/ FetchSettles
    \/ ChannelSettles
    \/ FallbackSettles
    \/ UnhandledRejection

Spec == Init /\ [][Next]_vars

(***************************************************************************)
(* The reader alone, with the scheduling the event loop guarantees: an     *)
(* armed timer fires and a settled promise resumes its awaiter.            *)
(***************************************************************************)
ReaderNext ==
    \/ Start
    \/ StdinData
    \/ StdinEnd
    \/ StdinError
    \/ TimeoutFires
    \/ ParseHookInputReturns

SpecReader ==
    /\ Init
    /\ [][ReaderNext]_vars
    /\ WF_vars(TimeoutFires)
    /\ WF_vars(ParseHookInputReturns)

(***************************************************************************)
(* LLMClient used directly, as its tests use it: one client is built from  *)
(* a configuration and summarize is called on it once.                     *)
(***************************************************************************)
ClientConfigs ==
    { LlmConfig(pr.provider, pr.apiKey, styles) :
        pr \in { [provider |-> "openai", apiKey |-> "sk-1"],
                 [provider |-> "openai", apiKey |-> "sk-2"],
                 [provider |-> "openai", apiKey |-> ""],
                 [provider |-> "ollama", apiKey |-> ""],
                 [provider |-> "claude", apiKey |-> "sk-1"] },
        styles \in { {}, {"terse"}, {"terse", "brief", "normal", "full"} } }

Texts ==
    { <<>>, <<Word("done")>>, <<Word("one"), NL, Word("two")>>,
      <<WS, Word("done"), Stop, NL>> }

Styles == {"bypass", "terse", "full", "silent", "shout", "", "constructor"}

InitClient ==
    /\ envVoice = "unset"
    /\ stdinRest = <<>>
    /\ pc = "new"
    /\ stdinState = "paused"
    /\ data = <<>>
    /\ timeout = "unset"
    /\ inputPromise = Pending
    /\ hook = PendingHook
    /\ config \in {[NoConfig EXCEPT !.llm = l] : l \in ClientConfigs}
    /\ transcript = <<>>
    /\ message = EmptyMessage
    /\ logPromise = 0
    /\ llm = NoClient
    /\ call = NoCall
    /\ fetches = <<>>
    /\ sentences = <<>>
    /\ speakIdx = 0
    /\ channel = <<>>
    /\ error = <<>>
    /\ exitCode = "running"
    /\ stages = <<>>

clientFrame == <<envVoice, readerVars, hook, config, transcript, logPromise,
                 speakIdx, channel, exitCode, stages>>

\* new LLMClient(config)
ClientNew ==
    /\ pc = "new"
    /\ LET made == LLMClientNew(config.llm)
       IN  IF made.ok
             THEN llm' = made.client /\ pc' = "ready" /\ error' = error
             ELSE llm' = llm /\ pc' = "threw" /\ error' = Append(error, made.err)
    /\ UNCHANGED <<clientFrame, message, call, fetches, sentences>>

\* client.summarize(text, style, context, intent, project) up to its first
\* suspension.
ClientSummarize ==
    /\ pc = "ready"
    /\ \E text \in Texts, style \in Styles, context \in {"development", "assistant"},
          project \in {"", "auth"} :
          LET s == SummarizeStart(llm, text, style, context, "completion", project)
          IN  /\ message' = [text |-> text, metadata |-> NoMetadata]
              /\ call' = [style |-> style, cache |-> "undefined", context |-> context,
                          intent |-> "completion", project |-> project]
              /\ pc' = IF s.do = "return" THEN "returned"
                       ELSE IF s.do = "throw" THEN "threw" ELSE "fetching"
              /\ sentences' = s.sentences
              /\ error' = IF s.do = "throw" THEN Append(error, s.err) ELSE error
              /\ fetches' = IF s.do = "fetch" THEN Append(fetches, s.request)
                            ELSE fetches
    /\ UNCHANGED <<clientFrame, llm>>

\* The provider's fetch settles and summarize returns or throws.
ClientFetchSettles ==
    /\ pc = "fetching"
    /\ \E resp \in Responses :
          LET s == SummarizeFinish(llm.provider, resp)
          IN  /\ pc' = IF s.do = "throw" THEN "threw" ELSE "returned"
              /\ sentences' = s.sentences
              /\ error' = IF s.do = "throw" THEN Append(error, s.err) ELSE error
    /\ UNCHANGED <<clientFrame, message, llm, call, fetches>>

ClientNext ==
    \/ ClientNew
    \/ ClientSummarize
    \/ ClientFetchSettles

SpecClient == InitClient /\ [][ClientNext]_vars

(***************************************************************************)
(* Speaker used directly, as its tests use it: one Speaker is built from a *)
(* voice configuration and speak is called on it once.                     *)
(***************************************************************************)
MaxSentences == 3   \* sentences handed to one speak call

\* A shell metacharacter inside a sentence.
Meta(c) == Tok("meta", "", c)

SentenceContents ==
    { <<Word("done"), Stop>>,
      <<Word("Hello"), Meta(";"), WS, Word("rm"), WS, Word("-rf"), WS, Word("/")>>,
      <<Word("Content"), WS, Meta("$("), Word("date"), Meta(")"), Stop>> }

SentenceLists == SeqsUpTo(SentenceContents, MaxSentences)

Modes == {"terse", "brief", "normal", "full", "bypass", "silent", "custom"}
CacheOverrides == {"undefined", "true", "false"}

SpeakerVoices ==
    { SystemVoice,
      [SystemVoice EXCEPT !.voice_id = "v1"],
      [SystemVoice EXCEPT !.provider = "elevenlabs", !.voice_id = "v1",
                          !.api_key = "el-1", !.cache_threshold = "0.9"] }

InitSpeaker ==
    /\ envVoice = "unset"
    /\ stdinRest = <<>>
    /\ pc = "idle"
    /\ stdinState = "paused"
    /\ data = <<>>
    /\ timeout = "unset"
    /\ inputPromise = Pending
    /\ hook = PendingHook
    /\ config \in {[NoConfig EXCEPT !.voice = v] : v \in SpeakerVoices}
    /\ transcript = <<>>
    /\ message = EmptyMessage
    /\ logPromise = 0
    /\ llm = NoClient
    /\ call = NoCall
    /\ fetches = <<>>
    /\ sentences = <<>>
    /\ speakIdx = 0
    /\ channel = <<>>
    /\ error = <<>>
    /\ exitCode = "running"
    /\ stages = <<>>

speakerFrame == <<envVoice, readerVars, hook, config, transcript, message, logPromise,
                  llm, fetches, exitCode, stages>>

\* Speak with a loop that does not await its subprocesses: every sentence
\* gets its invocation at once.
SpeakWithoutAwait ==
    /\ pc = "idle"
    /\ \E list \in SentenceLists, mode \in Modes, useCache \in CacheOverrides :
          /\ sentences' = list
          /\ call' = [NoCall EXCEPT !.style = mode, !.cache = useCache]
          /\ speakIdx' = Len(list)
          /\ channel' = channel \o
                [i \in 1..Len(list) |->
                    ChannelCall("speak", config.voice, list, mode, useCache, i)]
          /\ pc' = IF list = <<>> THEN "returned" ELSE "speaking"
    /\ UNCHANGED <<speakerFrame, error>>

\* speaker.speak(sentences, mode, useCache) up to its first suspension: the
\* subprocess of the first sentence, or the return when there is none.
Speak ==
    /\ pc = "idle"
    /\ \E list \in SentenceLists, mode \in Modes, useCache \in CacheOverrides :
          /\ sentences' = list
          /\ call' = [NoCall EXCEPT !.style = mode, !.cache = useCache]
          /\ IF list = <<>>
               THEN /\ pc' = "returned"
                    /\ UNCHANGED <<speakIdx, channel>>
               ELSE /\ pc' = "speaking"
                    /\ speakIdx' = 1
                    /\ channel' = Append(channel,
                                     ChannelCall("speak", config.voice, list, mode,
                                                 useCache, 1))
    /\ UNCHANGED <<speakerFrame, error>>

\* SpeakChannelSettles with a loop that goes on after a failed subprocess.
SpeakChannelSettlesSwallows ==
    /\ pc = "speaking"
    /\ \E status \in {"ok", "failed"} :
          IF speakIdx < Len(sentences)
            THEN /\ speakIdx' = speakIdx + 1
                 /\ channel' = Append(SetStatus(channel, status),
                                  ChannelCall("speak", config.voice, sentences,
                                              call.style, call.cache, speakIdx + 1))
                 /\ pc' = pc
            ELSE /\ channel' = SetStatus(channel, status)
                 /\ pc' = "returned"
                 /\ speakIdx' = speakIdx
    /\ UNCHANGED <<speakerFrame, call, sentences, error>>

\* The subprocess of the current sentence ends: the loop issues the next
\* invocation, speak returns after the last one, or the failure is thrown.
SpeakChannelSettles ==
    /\ pc = "speaking"
    /\ \/ /\ speakIdx < Len(sentences)
          /\ speakIdx' = speakIdx + 1
          /\ channel' = Append(SetStatus(channel, "ok"),
                               ChannelCall("speak", config.voice, sentences,
                                           call.style, call.cache, speakIdx + 1))
          /\ UNCHANGED <<pc, error>>
       \/ /\ speakIdx = Len(sentences)
          /\ channel' = SetStatus(channel, "ok")
          /\ pc' = "returned"
          /\ UNCHANGED <<speakIdx, error>>
       \/ /\ channel' = SetStatus(channel, "failed")
          /\ error' = Append(error, Err("service", "lspeak failed", ""))
          /\ pc' = "threw"
          /\ UNCHANGED speakIdx
    /\ UNCHANGED <<speakerFrame, call, sentences>>

SpeakerNext ==
    \/ Speak
    \/ SpeakChannelSettles

SpecSpeaker == InitSpeaker /\ [][SpeakerNext]_vars

(***************************************************************************)
(* extractLastAssistantMessage used directly on a transcript file.  A file *)
(* is a sequence of blocks, each the physical lines one writer step left:  *)
(* a record on one line, a record spread over several lines, or a line     *)
(* that is no record at all.                                               *)
(***************************************************************************)
MaxTurns == 2       \* blocks of a transcript file around its filler records

\* The i-th of the n physical lines of a record whose text field holds its
\* line breaks unescaped.  JSON.parse accepts no control character inside a
\* string literal, so ParseEntry rejects every buffer holding such a line.
StringPieceLine(e, i, n) == [kind |-> "strpiece", entry |-> e, i |-> i, n |-> n]

Assistant(text) == Entry("assistant", <<TextItem("string", text)>>)

\* The text of the first text item of a record that has one.
TextOf(e) ==
    LET items == SelectSeq(e.content, LAMBDA c : c.type = "text" /\ c.kind = "string")
    IN  IF items = <<>> THEN <<>> ELSE items[1].val

Breaks(text) == Len(SelectSeq(text, LAMBDA tok : tok = NL))

\* JSON.stringify(record): the line breaks of the text are escaped and the
\* record is one physical line.
EscapedBlock(e) == <<JsonLine(e)>>

\* The record written with the line breaks of its text as they are.
RawBlock(e) ==
    LET n == Breaks(TextOf(e)) + 1
    IN  IF n = 1 THEN <<JsonLine(e)>> ELSE [i \in 1..n |-> StringPieceLine(e, i, n)]

\* The record written over two lines, broken between two lexemes.
PrettyBlock(e) == <<PieceLine(e, 1, 2), PieceLine(e, 2, 2)>>

DevTag == TagBlock("development", "completion", "auth")
TwoLines == <<Word("one"), Stop, NL, Word("two"), Stop>>
LeadTagText == <<DevTag, WS, Word("JWT work is done"), Stop>>
MidTagText == <<Word("Task completed"), Stop, NL, NL, DevTag, NL, NL,
                Word("The article is ready"), Stop>>
EndTagText == <<Word("one"), Stop, NL, Word("two"), Stop, NL, DevTag>>

\* A JSON value without a message, and records off the expected shape.
ShapelessLine == JsonLine(Entry("none", <<>>))
ToolOnlyLine == JsonLine(Entry("assistant", <<ToolItem, TextItem("string", <<>>)>>))
MixedLine == JsonLine(Entry("assistant",
                 <<TextItem("number", <<>>), TextItem("string", <<Word("late")>>)>>))

\* The start of a record whose writer has not finished the line.
TruncatedLine == PieceLine(Assistant(TwoLines), 1, 2)

ResolverBlocks ==
    { <<UserLine>>, <<PlainLine>>, <<TaggedLine>>, <<NumberLine>>, <<JunkLine>>,
      <<BlankLine>>, <<ShapelessLine>>, <<ToolOnlyLine>>, <<MixedLine>>,
      <<TruncatedLine>>,
      EscapedBlock(Assistant(TwoLines)), RawBlock(Assistant(TwoLines)),
      PrettyBlock(Assistant(TwoLines)),
      EscapedBlock(Assistant(LeadTagText)), EscapedBlock(Assistant(MidTagText)),
      EscapedBlock(Assistant(EndTagText)) }

\* Records without an answer between the first block and the later ones.
Fillers == {0, SearchWindow - 1, SearchWindow}

RECURSIVE Flatten(_)
Flatten(blocks) ==
    IF blocks = <<>> THEN <<>> ELSE Head(blocks) \o Flatten(Tail(blocks))

FileOf(blocks, k) ==
    IF blocks = <<>> THEN Repeat(UserLine, k)
    ELSE Head(blocks) \o Repeat(UserLine, k) \o Flatten(Tail(blocks))

ResolverFiles ==
    {IOError} \cup { FileOf(blocks, k) :
                       blocks \in SeqsUpTo(ResolverBlocks, MaxTurns), k \in Fillers }

InitResolver ==
    /\ envVoice = "unset"
    /\ stdinRest = <<>>
    /\ pc = "resolving"
    /\ stdinState = "paused"
    /\ data = <<>>
    /\ timeout = "unset"
    /\ inputPromise = Pending
    /\ hook = PendingHook
    /\ config = NoConfig
    /\ transcript \in ResolverFiles
    /\ message = EmptyMessage
    /\ logPromise = 0
    /\ llm = NoClient
    /\ call = NoCall
    /\ fetches = <<>>
    /\ sentences = <<>>
    /\ speakIdx = 0
    /\ channel = <<>>
    /\ error = <<>>
    /\ exitCode = "running"
    /\ stages = <<>>

resolverFrame == <<envVoice, readerVars, hook, config, transcript, llm, call, fetches,
                   sentences, speakIdx, channel, exitCode, stages>>

\* ResolverReturns without the outer catch: a failed read is thrown on.
ResolverReturnsUncaught ==
    /\ pc = "resolving"
    /\ IF transcript = IOError
         THEN /\ pc' = "threw"
              /\ error' = Append(error, Err("io", "ENOENT", ""))
              /\ UNCHANGED <<message, logPromise>>
         ELSE /\ LET r == extractLastAssistantMessage(transcript)
                 IN  message' = r.message /\ logPromise' = r.rejected
              /\ pc' = "returned"
              /\ error' = error
    /\ UNCHANGED resolverFrame

\* extractLastAssistantMessage(path) from the settled read of the file to
\* its return.
ResolverReturns ==
    /\ pc = "resolving"
    /\ LET r == extractLastAssistantMessage(transcript)
       IN  message' = r.message /\ logPromise' = r.rejected
    /\ pc' = "returned"
    /\ UNCHANGED <<resolverFrame, error>>

ResolverNext == ResolverReturns

SpecResolver == InitResolver /\ [][ResolverNext]_vars

(***************************************************************************)
(* extractMetadata used directly, on messages written out to the level its *)
(* regular expressions look at: a message is a sequence of plain text and  *)
(* bracketed blocks, the content of a block a sequence of key:value pairs  *)
(* and separators, a value a sequence of runs of characters of one class.  *)
(***************************************************************************)
W(s) == [cls |-> "word", s |-> s]           \* a run of [A-Za-z0-9_]
Hyphen == [cls |-> "hyphen", s |-> "-"]
Other(s) == [cls |-> "other", s |-> s]      \* a character outside [\w-]

\* The key pre ++ name before a colon.
Key(pre, name) == [pre |-> pre, name |-> name]
Pair(key, value) == [t |-> "pair", key |-> key, value |-> value, s |-> ""]
Sep(s) == [t |-> "sep", key |-> Key("", ""), value |-> <<>>, s |-> s]

Block(marker, content, close) ==
    [t |-> "block", marker |-> marker, content |-> content, close |-> close]
PlainText == [t |-> "text", marker |-> "", content |-> <<>>, close |-> ""]

\* A value that is no string.
NotAString == <<[t |-> "number", marker |-> "", content |-> <<>>, close |-> ""]>>

\* message.match(/clarvis:\[([^\]]+)\]/): the match opens at the first
\* clarvis:[ that has a closing bracket after at least one character, and
\* its group runs up to the first closing bracket.
clarvisMatch(msg) ==
    LET closes(i) == {j \in i..Len(msg) : msg[j].t = "block" /\ msg[j].close = "]"}
        first(S) == CHOOSE x \in S : \A y \in S : x <= y
        opens == {i \in 1..Len(msg) :
                    /\ msg[i].t = "block"
                    /\ msg[i].marker = "clarvis:["
                    /\ closes(i) # {}
                    /\ (msg[i].content # <<>> \/ first(closes(i)) > i)}
    IN  IF opens = {} THEN [found |-> FALSE, content |-> <<>>]
        ELSE LET i == first(opens)
                 j == first(closes(i))
                 part(k) == IF msg[k].t = "block"
                              THEN (IF k > i THEN <<Sep(msg[k].marker)>> ELSE <<>>)
                                   \o msg[k].content
                              ELSE <<Sep("text")>>
                 RECURSIVE upTo(_)
                 upTo(k) == IF k < i THEN <<>> ELSE upTo(k - 1) \o part(k)
             IN  [found |-> TRUE, content |-> upTo(j)]

\* The longest prefix of a value made of runs of the classes.
RECURSIVE Prefix(_, _)
Prefix(runs, classes) ==
    IF runs = <<>> \/ Head(runs).cls \notin classes THEN <<>>
    ELSE <<Head(runs)>> \o Prefix(Tail(runs), classes)

\* metadataContent.match(/<name>:(<classes>+)/): the group of the first
\* place where name and a colon are followed by a character of the classes;
\* what stands before the name and after the group is not looked at.
FieldMatch(content, name, classes) ==
    LET hits == SelectSeq(content,
                   LAMBDA x : /\ x.t = "pair"
                              /\ x.key.name = name
                              /\ Prefix(x.value, classes) # <<>>)
    IN  IF hits = <<>> THEN <<>> ELSE Prefix(hits[1].value, classes)

\* projectMatch with the character class of the other two keys.
projectMatchWordsOnly(content) == FieldMatch(content, "project", {"word"})

contextMatch(content) == FieldMatch(content, "context", {"word"})
intentMatch(content) == FieldMatch(content, "intent", {"word"})
projectMatch(content) == FieldMatch(content, "project", {"word", "hyphen"})

NoTag == [present |-> FALSE, context |-> "", intent |-> "", project |-> <<>>]

\* extractMetadata(message): the regular expressions, then the checks of
\* the values; a message that is no string has no match method.
ExtractMetadataCall(msg) ==
    IF msg = NotAString THEN [threw |-> TRUE, tag |-> NoTag]
    ELSE LET m == clarvisMatch(msg)
             c == contextMatch(m.content)
             i == intentMatch(m.content)
             checked == extractMetadata(
                           <<TagBlock(IF c = <<>> THEN "" ELSE c[1].s,
                                      IF i = <<>> THEN "" ELSE i[1].s,
                                      projectMatch(m.content))>>)
         IN  IF ~m.found \/ ~checked.present THEN [threw |-> FALSE, tag |-> NoTag]
             ELSE [threw |-> FALSE,
                   tag |-> [present |-> TRUE, context |-> checked.context,
                            intent |-> checked.intent, project |-> checked.project]]

\* The messages extractMetadata is called on.  A message is written from a
\* shape: the block's brackets, the order of its keys, the keys it has, the
\* spelling of the context key, the three values, the separator, an extra
\* pair, and what stands around the block.
TagKeys == {"context", "intent", "project"}
Orders ==
    { o \in [1..3 -> TagKeys] : \A a, b \in 1..3 : a # b => o[a] # o[b] }

RECURSIVE Join(_, _)
Join(pairs, sep) ==
    IF Len(pairs) <= 1 THEN pairs
    ELSE <<Head(pairs), sep>> \o Join(Tail(pairs), sep)

ContentOf(q) ==
    LET names == SelectSeq(q.order, LAMBDA n : n \in q.has)
        value(n) == IF n = "context" THEN q.cv
                    ELSE IF n = "intent" THEN q.iv ELSE q.pv
        key(n) == IF n = "context" THEN q.ckey ELSE Key("", n)
        pairs == [k \in 1..Len(names) |-> Pair(key(names[k]), value(names[k]))]
    IN  Join(pairs \o (IF q.extra THEN <<Pair(Key("", "extra"), <<W("data")>>)>>
                       ELSE <<>>),
             Sep(q.sep))

MessageOf(q) ==
    LET b == Block(q.marker, ContentOf(q), q.close)
    IN  CASE q.pos = "alone" -> <<b>>
          [] q.pos = "lead" -> <<b, PlainText>>
          [] q.pos = "end" -> <<PlainText, b>>
          [] q.pos = "mid" -> <<PlainText, b, PlainText>>
          [] q.pos = "after an open block" ->
                <<Block("clarvis:[", <<>>, ""), PlainText, b>>

BaseShape ==
    [marker |-> "clarvis:[", close |-> "]", order |-> <<"context", "intent", "project">>,
     has |-> TagKeys, ckey |-> Key("", "context"), cv |-> <<W("development")>>,
     iv |-> <<W("completion")>>, pv |-> <<W("my"), Hyphen, W("app")>>, sep |-> " ",
     extra |-> FALSE, pos |-> "alone"]

ProjectNames == { <<W("auth")>>, <<W("my"), Hyphen, W("app")>>, <<W("a_1")>> }

\* Every tag of the grammar, in every key order, at every position.
GrammarShapes ==
    { [BaseShape EXCEPT !.order = o, !.cv = <<W(c)>>, !.iv = <<W(i)>>, !.pv = p,
                        !.has = h, !.pos = pos] :
        o \in Orders, c \in validContexts, i \in validIntents, p \in ProjectNames,
        h \in {TagKeys, {"context", "intent"}},
        pos \in {"alone", "lead", "end", "mid"} }

\* Shapes that leave the grammar in one place.
OffShapes ==
    LET bases == {BaseShape, [BaseShape EXCEPT !.has = {"context", "intent"}],
                  [BaseShape EXCEPT !.pos = "mid"]}
    IN  UNION { { [b EXCEPT !.marker = "clarvis: ["],
                  [b EXCEPT !.marker = "clarvis{", !.close = "}"],
                  [b EXCEPT !.marker = "clarvis:(", !.close = ")"],
                  [b EXCEPT !.marker = "CLARVIS:["],
                  [b EXCEPT !.marker = "claude:["],
                  [b EXCEPT !.close = ""],
                  [b EXCEPT !.pos = "after an open block"],
                  [b EXCEPT !.sep = ","],
                  [b EXCEPT !.sep = ";"],
                  [b EXCEPT !.extra = TRUE],
                  [b EXCEPT !.ckey = Key("", "Context")],
                  [b EXCEPT !.ckey = Key("", "mode")],
                  [b EXCEPT !.ckey = Key("sub", "context")],
                  [b EXCEPT !.has = {"context", "project"}],
                  [b EXCEPT !.has = {"intent", "project"}],
                  [b EXCEPT !.has = {}],
                  [b EXCEPT !.cv = <<W("invalid")>>],
                  [b EXCEPT !.cv = <<>>],
                  [b EXCEPT !.cv = <<W("development"), Hyphen, W("x")>>],
                  [b EXCEPT !.cv = <<W("d"), Other("e-acute"), W("veloppement")>>],
                  [b EXCEPT !.cv = <<Other("e-acute"), W("criture")>>],
                  [b EXCEPT !.iv = <<W("unknown")>>],
                  [b EXCEPT !.iv = <<W("completion"), Other("!")>>],
                  [b EXCEPT !.pv = <<>>],
                  [b EXCEPT !.pv = <<W("test"), Other("."), W("app")>>],
                  [b EXCEPT !.pv = <<Other("e-acute"), W("t")>>] } : b \in bases }

MetadataInputs ==
    { MessageOf(q) : q \in GrammarShapes \cup OffShapes }
    \cup { <<>>, <<PlainText>>, NotAString }

InitMetadata ==
    /\ envVoice = "unset"
    /\ stdinRest = <<>>
    /\ pc = "extracting"
    /\ stdinState = "paused"
    /\ data = <<>>
    /\ timeout = "unset"
    /\ inputPromise = Pending
    /\ hook = PendingHook
    /\ config = NoConfig
    /\ transcript = <<>>
    /\ message \in {[text |-> m, metadata |-> NoTag] : m \in MetadataInputs}
    /\ logPromise = 0
    /\ llm = NoClient
    /\ call = NoCall
    /\ fetches = <<>>
    /\ sentences = <<>>
    /\ speakIdx = 0
    /\ channel = <<>>
    /\ error = <<>>
    /\ exitCode = "running"
    /\ stages = <<>>

\* extractMetadata(message) returns a tag or null, or throws; when the message
\* is no string the callback of its floating import is left to reject.
ExtractMetadataReturns ==
    /\ pc = "extracting"
    /\ LET r == ExtractMetadataCall(message.text)
       IN  IF r.threw
             THEN /\ pc' = "threw"
                  /\ error' = Append(error, Err("TypeError",
                                                "message.match is not a function", ""))
                  /\ UNCHANGED message
             ELSE /\ pc' = "returned"
                  /\ message' = [message EXCEPT !.metadata = r.tag]
                  /\ error' = error
    /\ logPromise' = IF ExtractMetadataCall(message.text).threw THEN logPromise + 1
                   ELSE logPromise
    /\ UNCHANGED <<envVoice, readerVars, hook, config, transcript, llm, call, fetches,
                   sentences, speakIdx, channel, exitCode, stages>>

MetadataNext == ExtractMetadataReturns

SpecMetadata == InitMetadata /\ [][MetadataNext]_vars

(***************************************************************************)
(* Properties.                                                             *)
(***************************************************************************)
Range(q) == {q[i] : i \in 1..Len(q)}
IsPrefix(a, b) == Len(a) <= Len(b) /\ SubSeq(b, 1, Len(a)) = a

\* The text is one JSON object in which every required field is a string.
WellFormedDescriptor(text) ==
    LET body == SelectSeq(text, LAMBDA tok : ~IsSpace(tok))
        n == Len(body)
    IN  /\ n >= 2
        /\ body[1] = LBrace
        /\ body[n] = RBrace
        /\ \A i \in 2..(n - 1) : body[i].t = "member"
        /\ \A f \in 1..4 :
              \E i \in 2..(n - 1) :
                 /\ body[i].k = RequiredFields[f]
                 /\ body[i].v = "string"
                 /\ \A j \in (i + 1)..(n - 1) : body[j].k # RequiredFields[f]

StopMember(text) ==
    IF \E i \in 1..Len(text) : text[i].k = "stop_hook_active"
      THEN (CHOOSE tok \in Range(text) : tok.k = "stop_hook_active").v
      ELSE "absent"

\* The reader returned no event, or an event that was handled already.
NoEventOrHandled == hook.status = "null" \/ hook.stop = "true"

\* The stream ended while the timer was still armed.
EndedInTime == stdinState = "ended" /\ timeout = "cleared"

\* C1: parseHookInput returns the parsed descriptor exactly when the stream
\* ended before the timeout with non-empty text that is a JSON object whose
\* four required fields are strings; in every other case it returns null,
\* and it returns one of the two in all cases (nothing is thrown).
C1_HookContract ==
    hook.status # "pending" =>
       /\ hook.status \in {"null", "event"}
       /\ hook.status = "event" <=>
             (EndedInTime /\ Trim(data) # <<>> /\ WellFormedDescriptor(data))
       /\ hook.status = "event" => hook.stop = StopMember(data)

C1_Witness ==
    /\ hook.status = "event"
    /\ hook.stop = "false"
    /\ pc = "hooked"

\* C2: once parseHookInput waits for stdin it always returns, also when no
\* input ever arrives and the stream never ends; when the timer fired the
\* result is null.
C2_ReaderAlwaysResolves ==
    /\ (pc = "reading") ~> (hook.status # "pending")
    /\ [](timeout = "fired" /\ hook.status # "pending" => hook = NullHook)

C2_Witness ==
    /\ timeout = "fired"
    /\ data = <<>>
    /\ stdinState = "flowing"
    /\ stdinRest # <<>>
    /\ hook = NullHook

\* C3: every execution that terminates ends with exit status 0.
C3_ExitStatusZero == exitCode \in {"running", "0"}

FallbackArgs ==
    <<Arg("lspeak"), Arg("--provider"), Arg("system"), TextArg(FallbackText)>>
CallsBy(who) == {i \in 1..Len(channel) : channel[i].by = who}

\* C4: the fallback utterance is attempted once for an error that surfaced at
\* main's boundary and never otherwise; the errors that surface are
\* configuration errors and service failures, a failed channel call of the
\* summary among them; the fallback goes to the channel with the system
\* provider only, no credentials and the fixed text, whatever the error and
\* the loaded configuration; it is the last channel call, also when it fails.
C4_FallbackOnceOnError ==
    /\ Len(error) <= 1
    /\ Cardinality(CallsBy("fallback")) = Len(error)
    /\ \A i \in 1..Len(error) : error[i].kind \in {"config", "service"}
    /\ (\E i \in CallsBy("main") : channel[i].status = "failed") => Len(error) = 1
    /\ NoEventOrHandled => error = <<>>
    /\ ("resolver:end" \in Range(stages) /\ message.text = <<>>) => error = <<>>
    /\ \A i \in CallsBy("fallback") :
          /\ i = Len(channel)
          /\ channel[i].args = FallbackArgs
          /\ channel[i].env = {}
          /\ channel[i].status = "failed" => pc = "exited" /\ exitCode = "0"

C4_Witness ==
    /\ Len(error) = 1
    /\ error[1].arg = "429"
    /\ config.voice.api_key # ""
    /\ channel[Len(channel)].by = "fallback"
    /\ channel[Len(channel)].status = "failed"
    /\ pc = "exited"

StageOrder ==
    <<"reader:start", "reader:end", "resolver:start", "resolver:end",
      "summarizer:start", "summarizer:end", "dispatcher:start", "dispatcher:end">>

\* C5: the stages start and end in the order reader, resolver, summarizer,
\* dispatcher, each after the result of the one before is known; when the
\* reader returned no event or the event's stop_hook_active flag is set, or
\* when the resolver returned empty text, no later stage has run: no
\* configuration or transcript read in the first case, no provider call and
\* no speech dispatch in both.
C5_StagesInOrder ==
    /\ IsPrefix(stages, StageOrder)
    /\ config # NoConfig => "reader:end" \in Range(stages) /\ ~NoEventOrHandled
    /\ "resolver:start" \in Range(stages) => config # NoConfig
    /\ (llm.built \/ fetches # <<>>) =>
          "resolver:end" \in Range(stages) /\ message.text # <<>>
    /\ CallsBy("main") # {} =>
          "summarizer:end" \in Range(stages) /\ sentences # <<>>
    /\ NoEventOrHandled =>
          /\ config = NoConfig
          /\ "resolver:start" \notin Range(stages)
          /\ fetches = <<>>
          /\ channel = <<>>
    /\ ("resolver:end" \in Range(stages) /\ message.text = <<>>) =>
          /\ "summarizer:start" \notin Range(stages)
          /\ ~llm.built
          /\ fetches = <<>>
          /\ channel = <<>>

C5_Witness ==
    /\ stages = StageOrder
    /\ Len(fetches) = 1
    /\ Len(channel) = 2
    /\ pc = "exited"

NoAssistantRecord(content) ==
    \A i \in 1..Len(content) : content[i].entry.role # "assistant"

\* C6: when the transcript holds no assistant record, the pipeline ends
\* right after the resolver with status 0, having dispatched no speech (no
\* summary sentence and no fallback utterance), called no provider and
\* surfaced no error.
C6_NoAssistantNoSpeech ==
    ("resolver:end" \in Range(stages) /\ NoAssistantRecord(transcript)) =>
       /\ channel = <<>>
       /\ fetches = <<>>
       /\ error = <<>>
       /\ pc \in {"resolved", "exited"}
       /\ exitCode \in {"running", "0"}

C6_Witness ==
    /\ "resolver:end" \in Range(stages)
    /\ NoAssistantRecord(transcript)
    /\ Len(transcript) = MaxLines
    /\ transcript[1] = UserLine
    /\ pc = "exited"

\* C7: with CLARVIS_VOICE=off the process exits with status 0 before the
\* reader runs: stdin is never resumed and nothing is read from it, no timer
\* is set, neither configuration nor transcript is read, no provider is
\* called and nothing is dispatched.
C7_DisabledDoesNothing ==
    envVoice = "off" =>
       /\ pc \in {"start", "exited"}
       /\ exitCode \in {"running", "0"}
       /\ stdinState = "paused"
       /\ data = <<>>
       /\ timeout = "unset"
       /\ hook = PendingHook
       /\ config = NoConfig
       /\ stages = <<>>
       /\ fetches = <<>>
       /\ channel = <<>>

C7_Witness ==
    /\ envVoice = "off"
    /\ pc = "exited"
    /\ stdinRest = ValidText

\* The style main resolves for the message it holds.
ResolvedStyle ==
    LET context == IF message.metadata.present THEN message.metadata.context
                   ELSE "assistant"
    IN  IF context \in DOMAIN config.contexts THEN config.contexts[context].style
        ELSE IF "assistant" \in DOMAIN config.contexts
          THEN config.contexts["assistant"].style
        ELSE "none"

\* C8: when the style resolved for the message's context is silent, no
\* LLM client is constructed, no provider is called, nothing is dispatched
\* (no fallback utterance either) and the process ends with status 0.
C8_SilentProducesNothing ==
    ("resolver:end" \in Range(stages) /\ message.text # <<>>
        /\ ResolvedStyle = "silent") =>
       /\ ~llm.built
       /\ fetches = <<>>
       /\ channel = <<>>
       /\ error = <<>>
       /\ pc \in {"resolved", "exited"}
       /\ exitCode \in {"running", "0"}

C8_Witness ==
    /\ pc = "exited"
    /\ message.text # <<>>
    /\ message.metadata.present
    /\ ResolvedStyle = "silent"

Called == llm.built /\ pc \in {"returned", "threw", "fetching"}

\* C9: summarize with style bypass returns the one-element list holding the
\* text it was given, for every text and both providers, and issues no
\* provider request.
C9_BypassPassesThrough ==
    (Called /\ call.style = "bypass") =>
       /\ pc = "returned"
       /\ sentences = <<message.text>>
       /\ fetches = <<>>
       /\ error = <<>>

C9_Witness ==
    /\ Called
    /\ call.style = "bypass"
    /\ message.text = <<>>
    /\ llm.provider = "ollama"
    /\ pc = "returned"

\* C10: summarize with a style other than bypass that has no template in
\* the configured prompts throws 'No prompt configured for style: <style>'
\* and issues no provider request.
C10_UnknownStyleRejected ==
    (Called /\ call.style # "bypass" /\ call.style \notin DOMAIN llm.prompts) =>
       /\ pc = "threw"
       /\ error = <<Err("config", "No prompt configured for style: ", call.style)>>
       /\ fetches = <<>>

\* The sentence a channel call was given: its last argument.
Spoken(c) == c.args[Len(c.args)].text
InFlight == {i \in 1..Len(channel) : channel[i].status = "running"}
HasFlag(c, flag) == \E k \in 1..Len(c.args) : c.args[k].opt = flag

\* C11: the channel calls of one speak call are issued in list order, the
\* call for sentence i+1 only after the call for sentence i has completed:
\* at most one call is in flight at any time, and it is the latest one.
C11_SequentialDispatch ==
    /\ Len(channel) <= Len(sentences)
    /\ \A i \in 1..Len(channel) : Spoken(channel[i]) = sentences[i]
    /\ Cardinality(InFlight) <= 1
    /\ \A i \in 1..Len(channel) : i < Len(channel) => channel[i].status = "ok"
    /\ pc = "speaking" <=> InFlight = {Len(channel)} /\ channel # <<>>
    /\ pc = "returned" =>
          /\ Len(channel) = Len(sentences)
          /\ \A i \in 1..Len(channel) : channel[i].status = "ok"

C11_Witness ==
    /\ Len(sentences) = MaxSentences
    /\ Len(channel) = 2
    /\ channel[1].status = "ok"
    /\ channel[2].status = "running"
    /\ sentences[1] # sentences[2]

\* C12: when the channel fails for sentence k, speak throws that failure,
\* sentences 1..k-1 have been dispatched and have completed, and no call is
\* ever issued for sentences k+1..N; speak throws for no other reason.
C12_FailureStopsDispatch ==
    /\ \A k \in 1..Len(channel) :
          channel[k].status = "failed" =>
             /\ pc = "threw"
             /\ error = <<Err("service", "lspeak failed", "")>>
             /\ k = Len(channel)
             /\ \A i \in 1..(k - 1) :
                   channel[i].status = "ok" /\ Spoken(channel[i]) = sentences[i]
    /\ pc = "threw" =>
          channel # <<>> /\ channel[Len(channel)].status = "failed"
    /\ pc # "threw" => error = <<>>

C12_Witness ==
    /\ pc = "threw"
    /\ Len(sentences) = MaxSentences
    /\ Len(channel) = 2
    /\ channel[1].status = "ok"
    /\ channel[2].status = "failed"

\* C13: without a cache override, speak dispatches with caching enabled
\* for every style except bypass, and with --no-cache for bypass.
C13_CacheExceptBypass ==
    call.cache = "undefined" =>
       \A i \in 1..Len(channel) :
          HasFlag(channel[i], "--no-cache") <=> call.style = "bypass"

\* C14: when a cache override is passed to speak, every sentence is
\* dispatched with the override's cache decision, whatever the style.
C14_OverrideWins ==
    call.cache # "undefined" =>
       \A i \in 1..Len(channel) :
          HasFlag(channel[i], "--no-cache") <=> call.cache = "false"

C14_Witness ==
    /\ call.style = "full"
    /\ call.cache = "true"
    /\ Len(channel) >= 2
    /\ ~HasFlag(channel[2], "--no-cache")

\* C15: each sentence is exactly one element of the argument vector, the
\* last one, whole; the other arguments carry no sentence text and are the
\* same in number and value for any two sentences, metacharacters or not.
C15_SentenceIsOneArgument ==
    \A i \in 1..Len(channel) :
       LET a == channel[i].args
       IN  /\ a[Len(a)] = TextArg(sentences[i])
           /\ \A k \in 1..(Len(a) - 1) : a[k].opt # "" /\ a[k].text = <<>>
           /\ a[1] = Arg("lspeak")
           /\ \A j \in 1..Len(channel) :
                 LET b == channel[j].args
                 IN  /\ Len(a) = Len(b)
                     /\ SubSeq(a, 1, Len(a) - 1) = SubSeq(b, 1, Len(b) - 1)

C15_Witness ==
    /\ Len(channel) = 2
    /\ \E k \in 1..Len(sentences[1]) : sentences[1][k].t = "meta"
    /\ \A k \in 1..Len(sentences[2]) : sentences[2][k].t # "meta"
    /\ config.voice.provider = "elevenlabs"
    /\ channel[2].status = "ok"

OnlyBlankLines(content) == \A i \in 1..Len(content) : content[i].kind = "blank"

\* C16: extractLastAssistantMessage returns empty text and no tag, and
\* throws nothing, when reading the file fails and when the file is empty
\* or holds whitespace only.
C16_ReadFailureYieldsEmpty ==
    /\ pc # "threw"
    /\ error = <<>>
    /\ (pc = "returned" /\ (transcript = IOError \/ OnlyBlankLines(transcript))) =>
          message = EmptyMessage

C16_Witness ==
    /\ pc = "returned"
    /\ transcript = IOError
    /\ message = EmptyMessage

\* The records the reconstruction loop closes on the file that was read.
Reconstructed ==
    IF transcript = IOError \/ OnlyBlankLines(transcript) THEN <<>>
    ELSE Reconstruct(SplitLines(transcript), <<>>, <<>>)

\* A record of the assistant with a non-empty text segment.
HasText(e) ==
    /\ e.role = "assistant"
    /\ \E k \in 1..Len(e.content) :
          /\ e.content[k].type = "text"
          /\ e.content[k].kind = "string"
          /\ e.content[k].val # <<>>

\* Every text segment of the record holds a string.
WellShaped(e) ==
    \A k \in 1..Len(e.content) :
       e.content[k].type = "text" => e.content[k].kind = "string"

\* The first non-empty text segment of a record.
FirstText(e) ==
    LET items == SelectSeq(e.content,
                    LAMBDA c : c.type = "text" /\ c.kind = "string" /\ c.val # <<>>)
    IN  IF items = <<>> THEN <<>> ELSE items[1].val

\* C17: in a file whose lines are whole records, blank lines and malformed
\* lines, every whole record is reconstructed, also after a malformed line,
\* and a last line that is an assistant record with text gives the result.
C17_MalformedLineDoesNotAbort ==
    (/\ pc = "returned"
     /\ transcript # IOError
     /\ \A i \in 1..Len(transcript) : transcript[i].kind \in {"json", "blank", "junk"}) =>
       /\ \A i \in 1..Len(transcript) :
             transcript[i].kind = "json" =>
                transcript[i].entry \in Range(Reconstructed)
       /\ \A e \in {transcript[i].entry : i \in {Len(transcript)} \cap DOMAIN transcript} :
             (transcript[Len(transcript)].kind = "json" /\ HasText(e) /\ WellShaped(e)) =>
                message.text # <<>>

\* The records a file was written from, one for each block of its lines.
TurnsOf(content) ==
    LET firsts == SelectSeq(content, LAMBDA l : l.i = 1)
    IN  [i \in 1..Len(firsts) |-> firsts[i].entry]

\* The file holds assistant turns only, each with one text segment that has
\* a line break in it, written on one line or on the lines of its text.
BuiltFromTurns(content) ==
    /\ content # IOError
    /\ content # <<>>
    /\ \A i \in 1..Len(content) :
          /\ content[i].kind \in {"json", "strpiece"}
          /\ content[i].entry.role = "assistant"
          /\ Len(content[i].entry.content) = 1
          /\ content[i].entry.content[1].type = "text"
          /\ content[i].entry.content[1].kind = "string"
          /\ Breaks(content[i].entry.content[1].val) > 0

WithoutTag(text) == SelectSeq(text, LAMBDA tok : tok.t # "tag" /\ tok # NL)
HasTag(text) == \E k \in 1..Len(text) : text[k].t = "tag"

\* C18: for a file written from N assistant turns whose texts hold line
\* breaks, the reconstruction yields the N turns, one record each, and the
\* result is the text of the N-th turn, unchanged but for the removed tag.
C18_EmbeddedNewlinesRoundTrip ==
    (pc = "returned" /\ BuiltFromTurns(transcript)) =>
       LET turns == TurnsOf(transcript)
           last == FirstText(turns[Len(turns)])
       IN  /\ Reconstructed = turns
           /\ ~HasTag(last) => message.text = last
           /\ HasTag(last) => WithoutTag(message.text) = WithoutTag(last)

\* The records the search is restricted to.
Window ==
    LET all == Reconstructed
    IN  IF Len(all) <= SearchWindow THEN all
        ELSE SubSeq(all, Len(all) - SearchWindow + 1, Len(all))

C20_ReturnedTextHasNoTag ==
    (pc = "returned" /\ message.metadata.present) => ~HasTag(message.text)

\* The file is whole records, one on each line, and the start of one more.
EndsIncomplete(content) ==
    /\ content # IOError
    /\ Len(content) >= 2
    /\ content[Len(content)] = TruncatedLine
    /\ \A i \in 1..(Len(content) - 1) : content[i].kind = "json"

InputBlocks == SelectSeq(message.text, LAMBDA x : x.t = "block")

PairsOf(b) == SelectSeq(b.content, LAMBDA x : x.t = "pair")
HasKey(b, name) == \E k \in 1..Len(PairsOf(b)) : PairsOf(b)[k].key = Key("", name)
ValueOf(b, name) ==
    (CHOOSE x \in Range(PairsOf(b)) : x.key = Key("", name)).value
IsWord(value) == Len(value) = 1 /\ value[1].cls = "word"
IsName(value) ==
    value # <<>> /\ \A k \in 1..Len(value) : value[k].cls \in {"word", "hyphen"}

\* The block follows the grammar clarvis:[key:value key:value ...]: these
\* brackets, pairs separated by blanks, the keys context and intent and at
\* most project, each once, values of word characters (and hyphens in the
\* project).
Grammatical(b) ==
    /\ b.marker = "clarvis:["
    /\ b.close = "]"
    /\ Len(b.content) % 2 = 1
    /\ \A k \in 1..Len(b.content) :
          IF k % 2 = 1 THEN b.content[k].t = "pair"
          ELSE b.content[k] = Sep(" ")
    /\ \A k \in 1..Len(PairsOf(b)) :
          /\ PairsOf(b)[k].key.pre = ""
          /\ PairsOf(b)[k].key.name \in {"context", "intent", "project"}
          /\ \A j \in 1..Len(PairsOf(b)) :
                j # k => PairsOf(b)[j].key # PairsOf(b)[k].key
    /\ HasKey(b, "context") /\ IsWord(ValueOf(b, "context"))
    /\ HasKey(b, "intent") /\ IsWord(ValueOf(b, "intent"))
    /\ HasKey(b, "project") => IsName(ValueOf(b, "project"))

ContextEnum == {"assistant", "development", "exploration", "writing"}
IntentEnum == {"navigation", "discussion", "completion", "status", "error"}

\* C21: extractMetadata never throws; a tag it returns has its context and
\* its intent in their enums and a project that is absent or a non-empty
\* string of word characters and hyphens; a message without a marker
\* block, without a context or intent key, or with a context or intent
\* value outside its enum yields null.
C21_TagsAreValidOrNull ==
    /\ pc # "threw"
    /\ pc = "returned" =>
          /\ message.metadata.present =>
                /\ message.metadata.context \in ContextEnum
                /\ message.metadata.intent \in IntentEnum
                /\ \A k \in 1..Len(message.metadata.project) :
                      message.metadata.project[k].cls \in {"word", "hyphen"}
          /\ (\A k \in 1..Len(InputBlocks) : InputBlocks[k].marker # "clarvis:[") =>
                ~message.metadata.present
          /\ \A k \in 1..Len(InputBlocks) :
                (\/ ~HasKey(InputBlocks[k], "context")
                 \/ ~HasKey(InputBlocks[k], "intent")
                 \/ ValueOf(InputBlocks[k], "context") \notin {<<W(c)>> : c \in ContextEnum}
                 \/ ValueOf(InputBlocks[k], "intent") \notin {<<W(i)>> : i \in IntentEnum})
                => (Len(InputBlocks) = 1 => ~message.metadata.present)

\* C22: a block that leaves the grammar (other brackets, another delimiter
\* between the pairs, an extra key, a character in a value that the
\* grammar does not allow) yields null, never a tag put together from the
\* parts that matched.
C22_DeviationYieldsNull ==
    (pc = "returned" /\ Len(InputBlocks) = 1 /\ ~Grammatical(InputBlocks[1])) =>
       ~message.metadata.present

\* C23: a message with one block of the grammar, context and intent in
\* their enums, the project absent or a name, in any key order and at any
\* position, yields exactly that context, intent and project.
C23_GrammarTagsExtracted ==
    (/\ pc = "returned"
     /\ Len(InputBlocks) = 1
     /\ Grammatical(InputBlocks[1])
     /\ ValueOf(InputBlocks[1], "context")[1].s \in ContextEnum
     /\ ValueOf(InputBlocks[1], "intent")[1].s \in IntentEnum) =>
       message.metadata =
          [present |-> TRUE,
           context |-> ValueOf(InputBlocks[1], "context")[1].s,
           intent |-> ValueOf(InputBlocks[1], "intent")[1].s,
           project |-> IF HasKey(InputBlocks[1], "project")
                         THEN ValueOf(InputBlocks[1], "project") ELSE <<>>]

C23_Witness ==
    /\ pc = "returned"
    /\ message.metadata.present
    /\ message.metadata.context = "writing"
    /\ message.metadata.project = <<W("my"), Hyphen, W("app")>>
    /\ Len(message.text) = 3
    /\ message.text[2].content[1].key.name = "project"

(***************************************************************************)
(* Properties of LLMClient on the answers of its provider.                 *)
(***************************************************************************)
FailedAnswer(resp) == resp.kind = "network" \/ resp.status # "200"

\* C24: an answer outside 2xx makes summarize throw an error that carries
\* the status, a connection failure makes it throw that connection error,
\* and in both cases the provider was called once and the caller receives
\* that one error.
C24_ProviderFailurePropagates ==
    /\ pc = "fetching" =>
          \A resp \in Responses :
             FailedAnswer(resp) =>
                LET s == SummarizeFinish(llm.provider, resp)
                IN  /\ s.do = "throw"
                    /\ s.err.kind = "service"
                    /\ resp.kind = "network" => s.err.msg = "fetch failed"
                    /\ resp.kind = "http" =>
                          /\ s.err.arg = resp.status
                          /\ s.err.msg = IF llm.provider = "openai"
                                           THEN "OpenAI API error: "
                                           ELSE "Ollama API error: "
    /\ (pc = "threw" /\ fetches # <<>>) => Len(fetches) = 1 /\ Len(error) = 1

C24_Witness ==
    /\ pc = "threw"
    /\ Len(fetches) = 1
    /\ error = <<Err("service", "OpenAI API error: ", "429")>>

\* An answer inside 2xx whose content field is missing, null or empty.
NoContent(resp) ==
    /\ resp.kind = "http"
    /\ resp.status = "200"
    /\ resp.body \in {"missing", "null"} \/ (resp.body = "json" /\ resp.content = <<>>)

\* C25: a 2xx answer with a missing, null or empty content field is the
\* empty string and no error: with either provider summarize returns the
\* list of one empty string.
C25_MissingContentIsEmptyString ==
    pc = "fetching" =>
       \A resp \in Responses :
          NoContent(resp) =>
             SummarizeFinish(llm.provider, resp) =
                [do |-> "return", err |-> NoErr, sentences |-> << <<>> >>]

C25_Witness ==
    /\ pc = "returned"
    /\ llm.provider = "ollama"
    /\ Len(fetches) = 1
    /\ sentences = << <<>> >>
    /\ error = <<>>

\* C26: a summarize call of a style other than bypass that returns yields
\* at least one element, each trimmed; an output under the length
\* threshold, one without a non-empty segment, or a throwing segmenter
\* yields the whole output, trimmed, as the single element, and no error.
C26_SegmentsTrimmedWithFallback ==
    /\ (pc = "returned" /\ call.style # "bypass") =>
          /\ Len(sentences) >= 1
          /\ \A i \in 1..Len(sentences) : Trim(sentences[i]) = sentences[i]
    /\ pc = "fetching" =>
          \A resp \in Responses :
             (/\ resp.kind = "http" /\ resp.status = "200" /\ resp.body = "json"
              /\ \/ Length(resp.content) < MinSplitLength
                 \/ \A seg \in Range(Segments(resp.content, <<>>)) : Trim(seg) = <<>>
                 \/ resp.segmenter = "throws") =>
                SummarizeFinish(llm.provider, resp) =
                   [do |-> "return", err |-> NoErr,
                    sentences |-> <<Trim(resp.content)>>]

C26_Witness ==
    /\ pc = "returned"
    /\ call.style = "terse"
    /\ Len(fetches) = 1
    /\ sentences = <<Summary(MaxSegments)>>

\* C27: the error of a failed construction and the error of a failed
\* provider call never contain the configured key, and a configuration
\* that differs in the key alone fails with the same error.
ApiKeys == {"sk-1", "sk-2"}

C27_ErrorsNeverCarryKey ==
    /\ \A i \in 1..Len(error) :
          error[i].msg \notin ApiKeys /\ error[i].arg \notin ApiKeys
    /\ pc = "new" =>
          \A k \in ApiKeys :
             LET a == LLMClientNew(config.llm)
                 b == LLMClientNew([config.llm EXCEPT !.apiKey = k])
             IN  (~a.ok /\ ~b.ok) => a.err = b.err
    /\ pc = "fetching" =>
          \A resp \in Responses :
             LET e == SummarizeFinish(llm.provider, resp).err
             IN  e.msg \notin ApiKeys /\ e.arg \notin ApiKeys

C27_Witness ==
    /\ pc = "threw"
    /\ config.llm.apiKey = "sk-1"
    /\ config.llm.provider = "claude"
    /\ error = <<Err("config", "Unsupported LLM provider: ", "claude")>>

(***************************************************************************)
(* Properties of main's choice of context, and of the read of stdin.       *)
(***************************************************************************)
\* main has gone past its choice of context on a message with text.
ContextChosen == message.text # <<>> /\ call # NoCall

\* C29: a message without a valid tag is handled as context assistant,
\* intent discussion, no project; the style and the cache setting are
\* those of the configured section of the context, else of the assistant
\* section; with neither section the invocation ends in the catch block
\* with a configuration error and no provider call.
C29_ContextResolution ==
    ContextChosen =>
       LET sections == config.contexts
           own == call.context \in DOMAIN sections
           dflt == "assistant" \in DOMAIN sections
       IN  /\ ~message.metadata.present =>
                 /\ call.context = "assistant"
                 /\ call.intent = "discussion"
                 /\ call.project = ""
           /\ message.metadata.present =>
                 /\ call.context = message.metadata.context
                 /\ call.intent = message.metadata.intent
                 /\ call.project = message.metadata.project
           /\ own =>
                 /\ call.style = sections[call.context].style
                 /\ call.cache = sections[call.context].cache
           /\ (~own /\ dflt) =>
                 /\ call.style = sections["assistant"].style
                 /\ call.cache = sections["assistant"].cache
           /\ (~own /\ ~dflt) =>
                 /\ error = <<Err("config", "No configuration found for context ",
                                  call.context)>>
                 /\ fetches = <<>>
                 /\ llm = NoClient
                 /\ pc \in {"fallback", "exited"}
                 /\ Len(channel) = 1
                 /\ channel[1].by = "fallback"

C29_Witness ==
    /\ ContextChosen
    /\ message.metadata.present
    /\ message.metadata.context = "development"
    /\ DOMAIN config.contexts = {"assistant"}
    /\ call.style = "terse"
    /\ call.cache = "true"
    /\ Len(fetches) = 1

\* C30: the first of stream end, stream error and timer decides the read:
\* the promise settles once and keeps its outcome, an end or error event
\* leaves no timer armed, a cancelled timer never fires, and after the
\* timer fired the result is null whatever data, end or error follow.
C30_FirstEventDecides ==
    /\ [](/\ timeout = "fired" => inputPromise = [state |-> "rejected", value |-> <<>>]
          /\ inputPromise.state = "resolved" =>
                stdinState = "ended" /\ timeout = "cleared"
          /\ stdinState \in {"ended", "errored"} => timeout \in {"cleared", "fired"}
          /\ (hook.status # "pending" /\ inputPromise.state = "rejected") =>
                hook = NullHook)
    /\ [][/\ inputPromise.state # "pending" => inputPromise' = inputPromise
          /\ timeout = "cleared" => timeout' = "cleared"
          /\ hook.status # "pending" => hook' = hook]_vars

C30_Witness ==
    /\ timeout = "fired"
    /\ stdinState = "ended"
    /\ ParseHookResult([state |-> "resolved", value |-> Trim(data)]) # NullHook
    /\ hook = NullHook

====
